---- MODULE Spec2Model ----
(***************************************************************************)
(* tempchk: one run of the hardware temperature tool.                      *)
(*                                                                         *)
(* The run lists the hwmon root, computes the two global values            *)
(* (digitalAmdPowerModuleInUse, maxEntryLength) in SetGlobalSensorFlags,   *)
(* then visits every listed device, reads its sensors with GetSensorData   *)
(* and prints one line per reading (or one N/A line).                      *)
(*                                                                         *)
(* Text is modelled as a sequence of one-character strings, so that        *)
(* strings.Trim, strconv.Atoi, strings.Contains and len() are computed as  *)
(* the Go library computes them.  A file is a record [err, data]: err is   *)
(* TRUE when ioutil.ReadFile fails (data is then empty).                   *)
(*                                                                         *)
(* The run modelled is one started without the -version flag; the -debug   *)
(* flag only adds output through debug() and changes no other state.       *)
(***************************************************************************)
EXTENDS Integers, Sequences, FiniteSets, TLC

(* ------------------------------ bounds -------------------------------- *)

\* number of device directories under the hwmon root
MaxDevices == 2

\* tempN_input files a device directory holds when GetSensorData is
\* followed call by call
MaxSensors == 3

\* calls of GetSensorData that are followed
MaxCalls == 2

\* characters an input file can hold before and after its number
MaxPad == 1

(* --------------------------- program constants ------------------------ *)

hardwareMonitorDirectory == "/sys/class/hwmon/"
cpuinfoDirectory == "/proc/cpuinfo"
hardwareNameFile == "name"
tempPrefix == "temp"
inputSuffix == "_input"
spacerSize == 4

\* sensor.intData /= 1000
milliUnits == 1000

\* sensor.intData += 30
k10tempOffset == 30

\* the cutset of every strings.Trim call on file data: " \n"
TrimCutset == {" ", "\n"}

k10temp == <<"k", "1", "0", "t", "e", "m", "p">>
fam15h_power == <<"f", "a", "m", "1", "5", "h", "_", "p", "o", "w", "e", "r">>
Ryzen == <<"R", "y", "z", "e", "n">>

\* exit status of a Go program that ends by panic(err)
panicExitCode == 2

(* ------------------------------ text ---------------------------------- *)

RECURSIVE TrimLeft(_, _)
TrimLeft(s, cutset) ==
    IF s # <<>> /\ Head(s) \in cutset THEN TrimLeft(Tail(s), cutset) ELSE s

RECURSIVE TrimRight(_, _)
TrimRight(s, cutset) ==
    IF s # <<>> /\ s[Len(s)] \in cutset
    THEN TrimRight(SubSeq(s, 1, Len(s) - 1), cutset)
    ELSE s

\* strings.Trim(s, cutset)
Trim(s, cutset) == TrimRight(TrimLeft(s, cutset), cutset)

\* strings.Contains(s, substr)
Contains(s, substr) ==
    \E k \in 0..(Len(s) - Len(substr)) :
        SubSeq(s, k + 1, k + Len(substr)) = substr

Digits == {"0", "1", "2", "3", "4", "5", "6", "7", "8", "9"}

DigitVal(c) ==
    CASE c = "0" -> 0 [] c = "1" -> 1 [] c = "2" -> 2 [] c = "3" -> 3
      [] c = "4" -> 4 [] c = "5" -> 5 [] c = "6" -> 6 [] c = "7" -> 7
      [] c = "8" -> 8 [] c = "9" -> 9

RECURSIVE DecimalValue(_, _)
DecimalValue(s, acc) ==
    IF s = <<>> THEN acc
    ELSE DecimalValue(Tail(s), acc * 10 + DigitVal(Head(s)))

\* strconv.Atoi(s): an optional sign, then one or more decimal digits;
\* anything else is a syntax error (the value is then 0).  The files of
\* the model hold at most six digits, far from the range error of int.
Atoi(s) ==
    LET signed == s # <<>> /\ Head(s) \in {"+", "-"}
        body == IF signed THEN Tail(s) ELSE s
        ok == body # <<>> /\ \A k \in 1..Len(body) : body[k] \in Digits
        mag == IF ok THEN DecimalValue(body, 0) ELSE 0
    IN [err |-> ~ok,
        val |-> IF signed /\ Head(s) = "-" THEN 0 - mag ELSE mag]

\* Go integer division truncates toward zero
GoDiv(a, b) ==
    IF a >= 0 THEN a \div b ELSE 0 - ((0 - a) \div b)

\* the loop "for len(paddedName) < width { paddedName += " " }"
RECURSIVE PadTo(_, _)
PadTo(s, width) ==
    IF Len(s) < width THEN PadTo(Append(s, " "), width) ELSE s

(* ------------------------------ files --------------------------------- *)

Missing == [err |-> TRUE, data |-> <<>>]
FileOf(text) == [err |-> FALSE, data |-> text]

\* len(rawData) < 1 or err != nil
Unusable(f) == f.err \/ Len(f.data) < 1

\* directory names the kernel gives the entries of the hwmon root
HwmonNames == <<"hwmon0", "hwmon1", "hwmon2", "hwmon3", "hwmon4">>

\* contents a device's name file can have
LabelFiles ==
    { Missing,
      FileOf(<<>>),
      FileOf(<<" ", "\n">>),
      FileOf(k10temp \o <<"\n">>),
      FileOf(fam15h_power \o <<"\n">>),
      FileOf(<<"i", "w", "l">>) }

\* the tempN_input files a device directory can hold, temp1_input first:
\* none; one that is no number; a reading, no number, a reading
InputDirs ==
    { <<>>,
      <<FileOf(<<"a", "b", "c">>)>>,
      <<FileOf(<<"4", "5", "0", "0", "0", "\n">>),
        FileOf(<<"a", "b", "c">>),
        FileOf(<<" ", "5", "0", "9", "9", "9", "\n">>)>> }

\* contents one tempN_input file can have: none, nothing, a reading with
\* white space around it, another reading, no number, a number below 1
SensorFiles ==
    { Missing,
      FileOf(<<>>),
      FileOf(<<" ", "4", "5", "0", "0", "0", "\n">>),
      FileOf(<<"5", "0", "9", "9", "9">>),
      FileOf(<<"a", "b", "c">>),
      FileOf(<<"0", "\n">>) }

\* the characters that can surround the number of an input file: space,
\* newline, tab, carriage return
PadChars == {" ", "\n", "\t", "\r"}

\* the runs of at most n such characters
RECURSIVE Pads(_)
Pads(n) ==
    IF n = 0 THEN {<<>>}
    ELSE Pads(n - 1) \cup
         { Append(p, c) : p \in { q \in Pads(n - 1) : Len(q) = n - 1 },
                          c \in PadChars }

\* a number with at most MaxPad characters before it and after it
PaddedFiles ==
    { FileOf(lead \o number \o trail) :
        lead \in Pads(MaxPad), trail \in Pads(MaxPad),
        number \in { <<"4", "5", "0", "0", "0">>, <<"7">>, <<"0">> } }

\* contents /proc/cpuinfo can have
CpuinfoFiles ==
    { Missing,
      FileOf(<<>>),
      FileOf(<<"A", "M", "D", " ">> \o Ryzen \o <<" ", "5", "\n">>),
      FileOf(<<"r", "y", "z", "e", "n", "\n">>) }

VARIABLES
    rootOk,                      \* the hwmon root can be listed
    rootEntries,                 \* what ioutil.ReadDir returns for the root
    nameFile,                    \* entry -> its name file
    inputFile,                   \* entry -> (N -> its tempN_input file)
    cpuinfoFile,                 \* /proc/cpuinfo
    pc,                          \* position of main
    listOfDeviceDirs,            \* main's local
    digitalAmdPowerModuleInUse,  \* global
    maxEntryLength,              \* global
    detectIdx,                   \* devices SetGlobalSensorFlags has visited
    reportIdx,                   \* devices main's loop has visited
    out,                         \* lines written to stdout
    reads,                       \* files opened so far, in order
    exitCode,                    \* process exit status, -1 while running
    call,                        \* the call of GetSensorData under way
    last,                        \* what the latest call of GetSensorData returned
    prev,                        \* what the call before it returned
    calls,                       \* calls of GetSensorData begun
    touched,                     \* a file changed under a call
    sensors                      \* main's local of the latest loop iteration

env == <<rootOk, rootEntries, nameFile, inputFile, cpuinfoFile>>
vars == <<rootOk, rootEntries, nameFile, inputFile, cpuinfoFile, pc,
          listOfDeviceDirs, digitalAmdPowerModuleInUse, maxEntryLength,
          detectIdx, reportIdx, out, reads, exitCode,
          call, last, prev, calls, touched, sensors>>

\* GetSensorData followed call by call
harness == <<call, last, prev, calls, touched>>

\* ioutil.ReadFile of tempN_input in a device directory
InputOf(files, n) == IF n \in DOMAIN files THEN files[n] ELSE Missing


\* strconv.Itoa for the sensor numbers the probe can reach
Itoa(n) == <<"0", "1", "2", "3", "4", "5", "6", "7", "8", "9">>[n + 1]

NamePath(hwmon) == <<hardwareMonitorDirectory, hwmon, "/", hardwareNameFile>>
InputPath(hwmon, n) ==
    <<hardwareMonitorDirectory, hwmon, "/", tempPrefix, Itoa(n), inputSuffix>>

\* one entry of the history of opened files
ReadBy(who, path) == [by |-> who, path |-> path]

(* --------------------------- GetSensorData ---------------------------- *)

\* the count loop: count starts at 1, the first unusable file ends it
\* with count-- ; files is the device directory as the loop sees it
RECURSIVE CountFrom(_, _)
CountFrom(files, count) ==
    IF Unusable(InputOf(files, count)) THEN count - 1
    ELSE CountFrom(files, count + 1)

\* CountSensors without the "count--" before the break
CountSensorsNoDecrement(files) == CountFrom(files, 1) + 1

CountSensors(files) == CountFrom(files, 1)

\* Rejected without the test of the value
RejectedOnlyOnError(parsed) == parsed.err

\* if err != nil || trimmedIntData < 1 { continue }
Rejected(parsed) == parsed.err \/ parsed.val < 1

\* NewSensor with the loop index where the code stores count
NewSensorCountIsIndex(name, hwmon, trimmedIntData, i, count) ==
    [name |-> name,
     path |-> InputPath(hwmon, i),
     category |-> tempPrefix,
     intData |-> trimmedIntData,
     number |-> i,
     count |-> i]

\* NewSensor with count where the code stores the loop index
NewSensorNumberIsCount(name, hwmon, trimmedIntData, i, count) ==
    [name |-> name,
     path |-> InputPath(hwmon, i),
     category |-> tempPrefix,
     intData |-> trimmedIntData,
     number |-> count,
     count |-> count]

\* NewSensor with the category stored as the name
NewSensorNameIsCategory(name, hwmon, trimmedIntData, i, count) ==
    [name |-> <<tempPrefix>>,
     path |-> InputPath(hwmon, i),
     category |-> tempPrefix,
     intData |-> trimmedIntData,
     number |-> i,
     count |-> count]

\* sensor := Sensor{...}
NewSensor(name, hwmon, trimmedIntData, i, count) ==
    [name |-> name,
     path |-> InputPath(hwmon, i),
     category |-> tempPrefix,
     intData |-> trimmedIntData,
     number |-> i,
     count |-> count]

\* the read loop, from index i on: break on an unusable file, continue
\* past a value that does not parse or is below 1, append otherwise
RECURSIVE ReadFrom(_, _, _, _, _, _)
ReadFrom(name, hwmon, files, i, count, acc) ==
    IF i > count THEN acc
    ELSE
      LET f == InputOf(files, i)
          opened == Append(acc.reads, ReadBy("GetSensorData", InputPath(hwmon, i)))
          parsed == Atoi(Trim(f.data, TrimCutset))
      IN IF Unusable(f) THEN [acc EXCEPT !.reads = opened]
         ELSE IF Rejected(parsed)
         THEN ReadFrom(name, hwmon, files, i + 1, count,
                       [acc EXCEPT !.reads = opened])
         ELSE ReadFrom(name, hwmon, files, i + 1, count,
                       [sensors |-> Append(acc.sensors,
                                     NewSensor(name, hwmon, parsed.val, i, count)),
                        reads |-> opened])

\* SensorsErr with the final length check left out
SensorsErrAlwaysNil(found) == "nil"

\* the error GetSensorData returns after its loops
SensorsErr(found) ==
    IF Len(found) = 0 THEN "GetSensorData(): no valid sensors" ELSE "nil"

\* GetSensorDataOn without the input validation
GetSensorDataOnUnvalidated(name, hwmon, countFiles, readFiles) ==
    LET count == CountSensors(countFiles)
        probes == [k \in 1..(count + 1) |->
                      ReadBy("GetSensorData", InputPath(hwmon, k))]
        got == ReadFrom(name, hwmon, readFiles, 1, count,
                        [sensors |-> <<>>, reads |-> probes])
    IN [sensors |-> got.sensors,
        err |-> SensorsErr(got.sensors),
        reads |-> got.reads,
        count |-> count]

\* GetSensorData with the directory as the count loop sees it (countFiles)
\* and as the read loop sees it (readFiles)
GetSensorDataOn(name, hwmon, countFiles, readFiles) ==
    IF name = <<>> \/ hwmon = ""
    THEN [sensors |-> <<>>, err |-> "GetSensorData(): invalid input",
          reads |-> <<>>, count |-> 0]
    ELSE
      LET count == CountSensors(countFiles)
          probes == [k \in 1..(count + 1) |->
                        ReadBy("GetSensorData", InputPath(hwmon, k))]
          got == ReadFrom(name, hwmon, readFiles, 1, count,
                          [sensors |-> <<>>, reads |-> probes])
      IN [sensors |-> got.sensors,
          err |-> SensorsErr(got.sensors),
          reads |-> got.reads,
          count |-> count]

\* no call of GetSensorData is under way
NoCall ==
    [name |-> <<>>, hwmon |-> "", count |-> 0, countFiles |-> <<>>,
     probes |-> <<>>]

\* no call of GetSensorData has returned
NoResult ==
    [returned |-> FALSE, name |-> <<>>, hwmon |-> "", countFiles |-> <<>>,
     readFiles |-> <<>>, count |-> 0, sensors |-> <<>>, err |-> "nil",
     probes |-> <<>>, opens |-> <<>>]

\* GetSensorData on the files of the run
GetSensorData(name, hwmon) ==
    GetSensorDataOn(name, hwmon, inputFile[hwmon], inputFile[hwmon])

(* ------------------------ SetGlobalSensorFlags ------------------------ *)

\* RangeAt walking the list from its end
RangeAtReversed(dirs, idx) == dirs[Len(dirs) - idx]

\* "for _, dir := range dirs": the entry the iteration after idx visits
RangeAt(dirs, idx) == dirs[idx + 1]

\* DetectStep with the flag assigned the comparison instead of set by it
DetectStepLastWins(g, hwmon) ==
    LET f == nameFile[hwmon]
        trimmed == Trim(f.data, TrimCutset)
    IN IF f.err THEN g
       ELSE IF Len(f.data) < 1 THEN g
       ELSE [flag |-> trimmed = fam15h_power,
             maxLen |-> IF Len(trimmed) > g.maxLen THEN Len(trimmed)
                        ELSE g.maxLen]

\* DetectStep with the length assigned without the comparison
DetectStepLastLength(g, hwmon) ==
    LET f == nameFile[hwmon]
        trimmed == Trim(f.data, TrimCutset)
    IN IF f.err THEN g
       ELSE IF Len(f.data) < 1 THEN g
       ELSE [flag |-> g.flag \/ trimmed = fam15h_power,
             maxLen |-> Len(trimmed)]

\* one iteration of the loop over dirs; g is [flag, maxLen]
DetectStep(g, hwmon) ==
    LET f == nameFile[hwmon]
        trimmed == Trim(f.data, TrimCutset)
    IN IF f.err THEN g
       ELSE IF Len(f.data) < 1 THEN g
       ELSE [flag |-> g.flag \/ trimmed = fam15h_power,
             maxLen |-> IF Len(trimmed) > g.maxLen THEN Len(trimmed)
                        ELSE g.maxLen]

\* DetectCpu without the CPU info check
DetectCpuIgnored(g) == g

\* the part after the loop: the read of the CPU info file
DetectCpu(g) ==
    IF Len(cpuinfoFile.data) = 0 \/ cpuinfoFile.err THEN g
    ELSE IF Contains(cpuinfoFile.data, Ryzen) THEN [g EXCEPT !.flag = TRUE]
    ELSE g

\* the whole loop over dirs, in the order of dirs
RECURSIVE DetectAll(_, _)
DetectAll(dirs, g) ==
    IF dirs = <<>> THEN g
    ELSE DetectAll(Tail(dirs), DetectStep(g, Head(dirs)))

\* SetGlobalSensorFlags on a non-empty list, from the globals g
SetGlobalSensorFlagsOn(dirs, g) == DetectCpu(DetectAll(dirs, g))

(* ------------------------------- main --------------------------------- *)

\* Normalize with the offset applied whatever the flag
NormalizeUngated(sensor, flag) ==
    LET scaled == GoDiv(sensor.intData, milliUnits)
    IN IF sensor.name = k10temp THEN scaled + k10tempOffset ELSE scaled

\* the body of the loop over a device's sensors, up to the value printed
Normalize(sensor, flag) ==
    LET scaled == GoDiv(sensor.intData, milliUnits)
    IN IF sensor.name = k10temp /\ ~flag THEN scaled + k10tempOffset
       ELSE scaled

\* NALine without the padding loop
NALineUnpadded(hwmon, trimmedName, maxLen) == <<hwmon, trimmedName, "N/A">>

\* a printed line is the tuple of Println's operands, the constant
\* separator "  " left out
NALine(hwmon, trimmedName, maxLen) ==
    <<hwmon, PadTo(trimmedName, maxLen + spacerSize), "N/A">>

ValueLine(hwmon, sensor, flag, maxLen) ==
    <<hwmon, PadTo(sensor.name, maxLen + spacerSize),
      Normalize(sensor, flag),
      <<"C", "   temperature sensor ", Itoa(sensor.number)>> >>

IsNALine(line) == Len(line) = 3
IsValueLine(line) == Len(line) = 4

\* DeviceLines with nothing printed for a device without readings
DeviceLinesOmitsNA(hwmon, flag, maxLen) ==
    LET f == nameFile[hwmon]
        trimmedName == Trim(f.data, TrimCutset)
        got == GetSensorData(trimmedName, hwmon)
    IN IF Unusable(f) \/ got.err # "nil" \/ Len(got.sensors) < 1 THEN <<>>
       ELSE [k \in 1..Len(got.sensors) |->
                ValueLine(hwmon, got.sensors[k], flag, maxLen)]

\* DeviceLines with an N/A line for a device with fewer readings than
\* count, and no "continue" after it
DeviceLinesNAForGaps(hwmon, flag, maxLen) ==
    LET f == nameFile[hwmon]
        trimmedName == Trim(f.data, TrimCutset)
        got == GetSensorData(trimmedName, hwmon)
    IN IF Unusable(f) THEN <<>>
       ELSE (IF got.err # "nil" \/ Len(got.sensors) < got.count
             THEN <<NALine(hwmon, trimmedName, maxLen)>> ELSE <<>>) \o
            [k \in 1..Len(got.sensors) |->
                ValueLine(hwmon, got.sensors[k], flag, maxLen)]

\* what one iteration of main's loop over the devices prints
DeviceLines(hwmon, flag, maxLen) ==
    LET f == nameFile[hwmon]
        trimmedName == Trim(f.data, TrimCutset)
        got == GetSensorData(trimmedName, hwmon)
    IN IF f.err THEN <<>>
       ELSE IF Len(f.data) < 1 THEN <<>>
       ELSE IF got.err # "nil" \/ Len(got.sensors) < 1
       THEN <<NALine(hwmon, trimmedName, maxLen)>>
       ELSE [k \in 1..Len(got.sensors) |->
                ValueLine(hwmon, got.sensors[k], flag, maxLen)]

\* the files one iteration of main's loop opens
DeviceReads(hwmon) ==
    LET f == nameFile[hwmon]
        trimmedName == Trim(f.data, TrimCutset)
    IN <<ReadBy("main", NamePath(hwmon))>> \o
       (IF Unusable(f) THEN <<>> ELSE GetSensorData(trimmedName, hwmon).reads)

\* SensorsAfterLoop with the loop writing through to the slice
SensorsAfterLoopInPlace(slice, flag) ==
    [k \in DOMAIN slice |->
        [slice[k] EXCEPT !.intData = Normalize(slice[k], flag)]]

\* the slice after "for _, sensor := range sensors": the loop variable is
\* a copy of the element, the assignments to sensor.intData change the copy
SensorsAfterLoop(slice, flag) == [k \in DOMAIN slice |-> slice[k]]

\* the sensors one iteration of main's loop holds at its end
DeviceSensors(hwmon, flag) ==
    LET f == nameFile[hwmon]
        trimmedName == Trim(f.data, TrimCutset)
    IN IF Unusable(f) THEN <<>>
       ELSE SensorsAfterLoop(GetSensorData(trimmedName, hwmon).sensors, flag)

(* ------------------------------ actions ------------------------------- *)

\* the files as the run finds them (a root that cannot be listed has no
\* entries to offer) and the globals as declared
Init ==
    /\ rootOk \in BOOLEAN
    /\ \E n \in 0..MaxDevices :
          rootEntries = IF rootOk THEN [k \in 1..n |-> HwmonNames[k]] ELSE <<>>
    /\ nameFile \in [{rootEntries[k] : k \in DOMAIN rootEntries} -> LabelFiles]
    /\ inputFile \in [{rootEntries[k] : k \in DOMAIN rootEntries} -> InputDirs]
    /\ cpuinfoFile \in CpuinfoFiles
    /\ pc = "start"
    /\ listOfDeviceDirs = <<>>
    /\ digitalAmdPowerModuleInUse = FALSE
    /\ maxEntryLength = 0
    /\ detectIdx = 0
    /\ reportIdx = 0
    /\ out = <<>>
    /\ reads = <<>>
    /\ exitCode = -1
    /\ call = NoCall
    /\ last = NoResult
    /\ prev = NoResult
    /\ calls = 0
    /\ touched = FALSE
    /\ sensors = <<>>

\* ListDevices with the error of ReadDir dropped
ListDevicesIgnoresError ==
    /\ pc = "start"
    /\ reads' = Append(reads, ReadBy("main", <<hardwareMonitorDirectory>>))
    /\ listOfDeviceDirs' = rootEntries
    /\ pc' = "SetGlobalSensorFlags"
    /\ UNCHANGED <<env, harness, sensors, digitalAmdPowerModuleInUse, maxEntryLength,
                   detectIdx, reportIdx, out, exitCode>>

\* listOfDeviceDirs, err := ioutil.ReadDir(...); if err != nil { panic(err) }
ListDevices ==
    /\ pc = "start"
    /\ reads' = Append(reads, ReadBy("main", <<hardwareMonitorDirectory>>))
    /\ IF rootOk
       THEN /\ listOfDeviceDirs' = rootEntries
            /\ pc' = "SetGlobalSensorFlags"
            /\ exitCode' = exitCode
       ELSE /\ listOfDeviceDirs' = listOfDeviceDirs
            /\ pc' = "panic"
            /\ exitCode' = panicExitCode
    /\ UNCHANGED <<env, harness, sensors, digitalAmdPowerModuleInUse, maxEntryLength,
                   detectIdx, reportIdx, out>>

\* EnterSetGlobalSensorFlags with the validation after the CPU info read
EnterSetGlobalSensorFlagsChecksLate ==
    /\ pc = "SetGlobalSensorFlags"
    /\ IF Len(listOfDeviceDirs) < 1
       THEN /\ out' = Append(out, <<"SetGlobalSensorFlags(): invalid input">>)
            /\ pc' = "exit"
            /\ exitCode' = 1
            /\ reads' = Append(reads, ReadBy("SetGlobalSensorFlags",
                                             <<cpuinfoDirectory>>))
            /\ digitalAmdPowerModuleInUse' =
                 DetectCpu([flag |-> digitalAmdPowerModuleInUse,
                            maxLen |-> maxEntryLength]).flag
       ELSE /\ out' = out
            /\ pc' = "detect"
            /\ exitCode' = exitCode
            /\ reads' = reads
            /\ digitalAmdPowerModuleInUse' = digitalAmdPowerModuleInUse
    /\ UNCHANGED <<env, harness, sensors, listOfDeviceDirs,
                   maxEntryLength, detectIdx, reportIdx>>

\* the call of SetGlobalSensorFlags up to its input validation; on the
\* error main prints it and calls os.Exit(1)
EnterSetGlobalSensorFlags ==
    /\ pc = "SetGlobalSensorFlags"
    /\ IF Len(listOfDeviceDirs) < 1
       THEN /\ out' = Append(out, <<"SetGlobalSensorFlags(): invalid input">>)
            /\ pc' = "exit"
            /\ exitCode' = 1
       ELSE /\ out' = out
            /\ pc' = "detect"
            /\ exitCode' = exitCode
    /\ UNCHANGED <<env, harness, sensors, listOfDeviceDirs, digitalAmdPowerModuleInUse,
                   maxEntryLength, detectIdx, reportIdx, reads>>

\* DetectDevice with "return nil" inside the loop
DetectDeviceReturnsEarly ==
    /\ pc = "detect"
    /\ detectIdx < Len(listOfDeviceDirs)
    /\ LET hwmon == RangeAt(listOfDeviceDirs, detectIdx)
           g == DetectStep([flag |-> digitalAmdPowerModuleInUse,
                            maxLen |-> maxEntryLength], hwmon)
       IN /\ digitalAmdPowerModuleInUse' = g.flag
          /\ maxEntryLength' = g.maxLen
          /\ reads' = Append(reads, ReadBy("SetGlobalSensorFlags", NamePath(hwmon)))
    /\ detectIdx' = detectIdx + 1
    /\ pc' = "report"
    /\ UNCHANGED <<env, harness, sensors, listOfDeviceDirs, reportIdx, out, exitCode>>

\* DetectDevice returning an error for a name file it cannot use
DetectDeviceFailsOnError ==
    /\ pc = "detect"
    /\ detectIdx < Len(listOfDeviceDirs)
    /\ LET hwmon == RangeAt(listOfDeviceDirs, detectIdx)
           g == DetectStep([flag |-> digitalAmdPowerModuleInUse,
                            maxLen |-> maxEntryLength], hwmon)
       IN /\ digitalAmdPowerModuleInUse' = g.flag
          /\ maxEntryLength' = g.maxLen
          /\ reads' = Append(reads, ReadBy("SetGlobalSensorFlags", NamePath(hwmon)))
          /\ IF Unusable(nameFile[hwmon])
             THEN pc' = "exit" /\ exitCode' = 1
             ELSE pc' = pc /\ exitCode' = exitCode
    /\ detectIdx' = detectIdx + 1
    /\ UNCHANGED <<env, harness, sensors, listOfDeviceDirs, reportIdx, out>>

\* one iteration of "for _, dir := range dirs" in SetGlobalSensorFlags
DetectDevice ==
    /\ pc = "detect"
    /\ detectIdx < Len(listOfDeviceDirs)
    /\ LET hwmon == RangeAt(listOfDeviceDirs, detectIdx)
           g == DetectStep([flag |-> digitalAmdPowerModuleInUse,
                            maxLen |-> maxEntryLength], hwmon)
       IN /\ digitalAmdPowerModuleInUse' = g.flag
          /\ maxEntryLength' = g.maxLen
          /\ reads' = Append(reads, ReadBy("SetGlobalSensorFlags", NamePath(hwmon)))
    /\ detectIdx' = detectIdx + 1
    /\ UNCHANGED <<env, harness, sensors, pc, listOfDeviceDirs, reportIdx, out, exitCode>>

\* DetectCpuinfo returning the error of the CPU info read
DetectCpuinfoFailsOnError ==
    /\ pc = "detect"
    /\ detectIdx = Len(listOfDeviceDirs)
    /\ LET g == DetectCpu([flag |-> digitalAmdPowerModuleInUse,
                           maxLen |-> maxEntryLength])
       IN /\ digitalAmdPowerModuleInUse' = g.flag
          /\ maxEntryLength' = g.maxLen
    /\ reads' = Append(reads, ReadBy("SetGlobalSensorFlags", <<cpuinfoDirectory>>))
    /\ IF Unusable(cpuinfoFile)
       THEN pc' = "exit" /\ exitCode' = 1
       ELSE pc' = "report" /\ exitCode' = exitCode
    /\ UNCHANGED <<env, harness, sensors, listOfDeviceDirs, detectIdx, reportIdx, out>>

\* the rest of SetGlobalSensorFlags: the CPU info read and "return nil"
DetectCpuinfo ==
    /\ pc = "detect"
    /\ detectIdx = Len(listOfDeviceDirs)
    /\ LET g == DetectCpu([flag |-> digitalAmdPowerModuleInUse,
                           maxLen |-> maxEntryLength])
       IN /\ digitalAmdPowerModuleInUse' = g.flag
          /\ maxEntryLength' = g.maxLen
    /\ reads' = Append(reads, ReadBy("SetGlobalSensorFlags", <<cpuinfoDirectory>>))
    /\ pc' = "report"
    /\ UNCHANGED <<env, harness, sensors, listOfDeviceDirs, detectIdx, reportIdx, out, exitCode>>

\* ReportDevice with "break" where the code has "continue"
ReportDeviceStopsOnFailure ==
    /\ pc = "report"
    /\ reportIdx < Len(listOfDeviceDirs)
    /\ LET hwmon == RangeAt(listOfDeviceDirs, reportIdx)
           lines == DeviceLines(hwmon, digitalAmdPowerModuleInUse, maxEntryLength)
       IN /\ out' = out \o lines
          /\ reads' = reads \o DeviceReads(hwmon)
          /\ sensors' = DeviceSensors(hwmon, digitalAmdPowerModuleInUse)
          /\ reportIdx' = IF \E k \in DOMAIN lines : IsValueLine(lines[k])
                          THEN reportIdx + 1 ELSE Len(listOfDeviceDirs)
    /\ UNCHANGED <<env, harness, pc, listOfDeviceDirs, digitalAmdPowerModuleInUse,
                   maxEntryLength, detectIdx, exitCode>>

\* ReportDevice taking the width of the name column from the device at hand
ReportDeviceSetsWidth ==
    /\ pc = "report"
    /\ reportIdx < Len(listOfDeviceDirs)
    /\ LET hwmon == RangeAt(listOfDeviceDirs, reportIdx)
           width == Len(Trim(nameFile[hwmon].data, TrimCutset))
       IN /\ out' = out \o DeviceLines(hwmon, digitalAmdPowerModuleInUse, width)
          /\ reads' = reads \o DeviceReads(hwmon)
          /\ sensors' = DeviceSensors(hwmon, digitalAmdPowerModuleInUse)
          /\ maxEntryLength' = width
    /\ reportIdx' = reportIdx + 1
    /\ UNCHANGED <<env, harness, pc, listOfDeviceDirs, digitalAmdPowerModuleInUse,
                   detectIdx, exitCode>>

\* ReportDevice with a name column that widens with every line printed
ReportDeviceWidthGrows ==
    /\ pc = "report"
    /\ reportIdx < Len(listOfDeviceDirs)
    /\ LET hwmon == RangeAt(listOfDeviceDirs, reportIdx)
       IN /\ out' = out \o DeviceLines(hwmon, digitalAmdPowerModuleInUse,
                                       maxEntryLength + Len(out))
          /\ reads' = reads \o DeviceReads(hwmon)
          /\ sensors' = DeviceSensors(hwmon, digitalAmdPowerModuleInUse)
    /\ reportIdx' = reportIdx + 1
    /\ UNCHANGED <<env, harness, pc, listOfDeviceDirs, digitalAmdPowerModuleInUse,
                   maxEntryLength, detectIdx, exitCode>>

\* one iteration of "for _, dir := range listOfDeviceDirs" in main
ReportDevice ==
    /\ pc = "report"
    /\ reportIdx < Len(listOfDeviceDirs)
    /\ LET hwmon == RangeAt(listOfDeviceDirs, reportIdx)
       IN /\ out' = out \o DeviceLines(hwmon, digitalAmdPowerModuleInUse,
                                       maxEntryLength)
          /\ reads' = reads \o DeviceReads(hwmon)
          /\ sensors' = DeviceSensors(hwmon, digitalAmdPowerModuleInUse)
    /\ reportIdx' = reportIdx + 1
    /\ UNCHANGED <<env, harness, pc, listOfDeviceDirs, digitalAmdPowerModuleInUse,
                   maxEntryLength, detectIdx, exitCode>>

\* Finish with the loop waiting for an index past the end of the list
FinishPastEnd ==
    /\ pc = "report"
    /\ reportIdx > Len(listOfDeviceDirs)
    /\ pc' = "done"
    /\ exitCode' = 0
    /\ UNCHANGED <<env, harness, sensors, listOfDeviceDirs,
                   digitalAmdPowerModuleInUse, maxEntryLength, detectIdx,
                   reportIdx, out, reads>>

\* main returns after the last device
Finish ==
    /\ pc = "report"
    /\ reportIdx = Len(listOfDeviceDirs)
    /\ pc' = "done"
    /\ exitCode' = 0
    /\ UNCHANGED <<env, harness, sensors, listOfDeviceDirs, digitalAmdPowerModuleInUse,
                   maxEntryLength, detectIdx, reportIdx, out, reads>>

Next ==
    \/ ListDevices
    \/ EnterSetGlobalSensorFlags
    \/ DetectDevice
    \/ DetectCpuinfo
    \/ ReportDevice
    \/ Finish

Spec == Init /\ [][Next]_vars

(* ----------------- GetSensorData followed call by call ---------------- *)

\* what main has when it calls GetSensorData: the root listed, detection
\* returned; one device with a label and MaxSensors input files
InitSensors ==
    /\ rootOk = TRUE
    /\ rootEntries = <<HwmonNames[1]>>
    /\ nameFile = [h \in {HwmonNames[1]} |-> FileOf(k10temp \o <<"\n">>)]
    /\ inputFile \in [{HwmonNames[1]} -> [1..MaxSensors -> SensorFiles]]
    /\ cpuinfoFile = FileOf(<<"A", "M", "D", " ">> \o Ryzen)
    /\ pc = "idle"
    /\ listOfDeviceDirs = rootEntries
    /\ LET g == SetGlobalSensorFlagsOn(rootEntries, [flag |-> FALSE, maxLen |-> 0])
       IN /\ digitalAmdPowerModuleInUse = g.flag
          /\ maxEntryLength = g.maxLen
    /\ detectIdx = Len(rootEntries)
    /\ reportIdx = 0
    /\ out = <<>>
    /\ reads = <<>>
    /\ exitCode = -1
    /\ call = NoCall
    /\ last = NoResult
    /\ prev = NoResult
    /\ calls = 0
    /\ touched = FALSE
    /\ sensors = <<>>

\* the names main can pass: a label, or what Trim leaves of a blank one
CallNames == {k10temp, <<>>}

\* GetSensorData up to the end of its count loop: the input validation
\* returns at once, otherwise count is established
GetSensorDataCount ==
    /\ pc = "idle"
    /\ calls < MaxCalls
    /\ \E name \in CallNames :
          LET hwmon == RangeAt(listOfDeviceDirs, reportIdx)
              count == CountSensors(inputFile[hwmon])
          IN IF name = <<>> \/ hwmon = ""
             THEN /\ last' = [returned |-> TRUE, name |-> name, hwmon |-> hwmon,
                              countFiles |-> <<>>, readFiles |-> <<>>,
                              count |-> 0, sensors |-> <<>>,
                              err |-> "GetSensorData(): invalid input",
                              probes |-> <<>>, opens |-> <<>>]
                  /\ prev' = last
                  /\ UNCHANGED <<call, pc>>
             ELSE /\ call' = [name |-> name, hwmon |-> hwmon, count |-> count,
                              countFiles |-> inputFile[hwmon],
                              probes |-> [k \in 1..(count + 1) |->
                                            InputPath(hwmon, k)]]
                  /\ pc' = "counted"
                  /\ UNCHANGED <<last, prev>>
    /\ calls' = calls + 1
    /\ UNCHANGED <<env, listOfDeviceDirs, digitalAmdPowerModuleInUse,
                   maxEntryLength, detectIdx, reportIdx, out, reads, exitCode,
                   touched, sensors>>

\* one input file of the device is replaced between the two loops
FileChanges ==
    /\ pc = "counted"
    /\ ~touched
    /\ \E n \in 1..MaxSensors : \E f \in SensorFiles :
          /\ f # inputFile[call.hwmon][n]
          /\ inputFile' = [inputFile EXCEPT ![call.hwmon][n] = f]
    /\ touched' = TRUE
    /\ UNCHANGED <<rootOk, rootEntries, nameFile, cpuinfoFile, pc,
                   listOfDeviceDirs, digitalAmdPowerModuleInUse, maxEntryLength,
                   detectIdx, reportIdx, out, reads, exitCode,
                   call, last, prev, calls, sensors>>

\* GetSensorDataRead with a sensors slice that outlives the call
GetSensorDataReadKeepsSensors ==
    /\ pc = "counted"
    /\ LET got == ReadFrom(call.name, call.hwmon, inputFile[call.hwmon], 1,
                           call.count, [sensors |-> last.sensors, reads |-> <<>>])
       IN last' = [returned |-> TRUE, name |-> call.name, hwmon |-> call.hwmon,
                   countFiles |-> call.countFiles,
                   readFiles |-> inputFile[call.hwmon],
                   count |-> call.count, sensors |-> got.sensors,
                   err |-> SensorsErr(got.sensors),
                   probes |-> call.probes,
                   opens |-> [k \in DOMAIN got.reads |-> got.reads[k].path]]
    /\ prev' = last
    /\ call' = NoCall
    /\ pc' = "idle"
    /\ UNCHANGED <<env, listOfDeviceDirs, digitalAmdPowerModuleInUse,
                   maxEntryLength, detectIdx, reportIdx, out, reads, exitCode,
                   calls, touched, sensors>>

\* the read loop of GetSensorData and its return
GetSensorDataRead ==
    /\ pc = "counted"
    /\ LET got == ReadFrom(call.name, call.hwmon, inputFile[call.hwmon], 1,
                           call.count, [sensors |-> <<>>, reads |-> <<>>])
       IN last' = [returned |-> TRUE, name |-> call.name, hwmon |-> call.hwmon,
                   countFiles |-> call.countFiles,
                   readFiles |-> inputFile[call.hwmon],
                   count |-> call.count, sensors |-> got.sensors,
                   err |-> SensorsErr(got.sensors),
                   probes |-> call.probes,
                   opens |-> [k \in DOMAIN got.reads |-> got.reads[k].path]]
    /\ prev' = last
    /\ call' = NoCall
    /\ pc' = "idle"
    /\ UNCHANGED <<env, listOfDeviceDirs, digitalAmdPowerModuleInUse,
                   maxEntryLength, detectIdx, reportIdx, out, reads, exitCode,
                   calls, touched, sensors>>

NextSensors ==
    \/ GetSensorDataCount
    \/ FileChanges
    \/ GetSensorDataRead

SpecSensors == InitSensors /\ [][NextSensors]_vars

\* GetSensorData on a device with one input file, a number between runs
\* of space, newline, tab and carriage return
InitPadded ==
    /\ rootOk = TRUE
    /\ rootEntries = <<HwmonNames[1]>>
    /\ nameFile = [h \in {HwmonNames[1]} |-> FileOf(k10temp \o <<"\n">>)]
    /\ inputFile \in [{HwmonNames[1]} -> { <<f>> : f \in PaddedFiles }]
    /\ cpuinfoFile = Missing
    /\ pc = "idle"
    /\ listOfDeviceDirs = rootEntries
    /\ LET g == SetGlobalSensorFlagsOn(rootEntries, [flag |-> FALSE, maxLen |-> 0])
       IN /\ digitalAmdPowerModuleInUse = g.flag
          /\ maxEntryLength = g.maxLen
    /\ detectIdx = Len(rootEntries)
    /\ reportIdx = 0
    /\ out = <<>>
    /\ reads = <<>>
    /\ exitCode = -1
    /\ call = NoCall
    /\ last = NoResult
    /\ prev = NoResult
    /\ calls = 0
    /\ touched = FALSE
    /\ sensors = <<>>

NextPadded ==
    \/ GetSensorDataCount
    \/ GetSensorDataRead

SpecPadded == InitPadded /\ [][NextPadded]_vars

(* ------------------------- reading the output ------------------------- *)

ValueLinesOf(hwmon) == SelectSeq(out, LAMBDA l : Len(l) = 4 /\ l[1] = hwmon)
NALinesOf(hwmon) == SelectSeq(out, LAMBDA l : Len(l) = 3 /\ l[1] = hwmon)
LinesOf(hwmon) == SelectSeq(out, LAMBDA l : Len(l) > 1 /\ l[1] = hwmon)

\* the label main passes to GetSensorData for a device
LabelOf(hwmon) == Trim(nameFile[hwmon].data, TrimCutset)

\* file f is readable and is text `name` between spaces and newlines only
LabelIs(f, name) ==
    /\ ~f.err
    /\ \E a \in 0..Len(f.data) :
          /\ a + Len(name) <= Len(f.data)
          /\ \A k \in 1..a : f.data[k] \in {" ", "\n"}
          /\ \A k \in 1..Len(name) : f.data[a + k] = name[k]
          /\ \A k \in (a + Len(name) + 1)..Len(f.data) : f.data[k] \in {" ", "\n"}

\* the CPU info file is readable and holds the text "Ryzen"
CpuinfoHasRyzen ==
    /\ ~cpuinfoFile.err
    /\ \E a \in 0..Len(cpuinfoFile.data) :
          /\ a + Len(Ryzen) <= Len(cpuinfoFile.data)
          /\ \A k \in 1..Len(Ryzen) : cpuinfoFile.data[a + k] = Ryzen[k]

SomeFam15hLabel ==
    \E k \in DOMAIN listOfDeviceDirs :
        LabelIs(nameFile[listOfDeviceDirs[k]], fam15h_power)

DetectionReturned == pc \in {"report", "done"}

(* ------------------------------- claims ------------------------------- *)

\* C1: every reading GetSensorData returns with raw value R for label L is
\* printed as R/1000, plus 30 exactly when L is "k10temp" and the flag is
\* false.
C1_NormalizedValue ==
    \A d \in 1..reportIdx :
        LET hwmon == listOfDeviceDirs[d]
            L == LabelOf(hwmon)
            got == GetSensorData(L, hwmon)
            lines == ValueLinesOf(hwmon)
        IN ~Unusable(nameFile[hwmon]) =>
             /\ Len(lines) = Len(got.sensors)
             /\ \A r \in 1..Len(got.sensors) :
                   LET R == got.sensors[r].intData
                   IN lines[r][3] =
                        IF L = k10temp /\ ~digitalAmdPowerModuleInUse
                        THEN (R \div 1000) + 30
                        ELSE R \div 1000

\* a run that printed 45000 as 75 for k10temp and as 45 for another label
C1_Witness ==
    /\ pc = "done"
    /\ \E p, q \in DOMAIN out :
          /\ Len(out[p]) = 4 /\ out[p][3] = 75
          /\ out[p][2] = PadTo(k10temp, maxEntryLength + spacerSize)
          /\ Len(out[q]) = 4 /\ out[q][3] = 45

\* C2: once SetGlobalSensorFlags has returned nil, the flag is true exactly
\* when some device's trimmed label is "fam15h_power" or the CPU info file
\* is readable and contains "Ryzen".
C2_FlagIff ==
    DetectionReturned =>
        (digitalAmdPowerModuleInUse <=> (SomeFam15hLabel \/ CpuinfoHasRyzen))

\* the flag set by the CPU info file alone
C2_Witness ==
    /\ DetectionReturned
    /\ digitalAmdPowerModuleInUse
    /\ ~SomeFam15hLabel

\* C3: before main opens any device file (and so before any reading is
\* normalized) SetGlobalSensorFlags has read the name file of every listed
\* device and the CPU info file.
C3_DetectionFirst ==
    /\ \A p \in DOMAIN reads :
          (reads[p].by = "GetSensorData"
             \/ (reads[p].by = "main" /\ Len(reads[p].path) > 1)) =>
            /\ \A k \in DOMAIN listOfDeviceDirs :
                  \E q \in 1..(p - 1) :
                      reads[q] = ReadBy("SetGlobalSensorFlags",
                                        NamePath(listOfDeviceDirs[k]))
            /\ \E q \in 1..(p - 1) :
                  reads[q] = ReadBy("SetGlobalSensorFlags", <<cpuinfoDirectory>>)
    /\ (\E p \in DOMAIN out : Len(out[p]) > 1) =>
          /\ DetectionReturned
          /\ detectIdx = Len(listOfDeviceDirs)

\* two devices listed, a reading printed
C3_Witness ==
    /\ pc = "done"
    /\ Len(listOfDeviceDirs) = 2
    /\ \E p \in DOMAIN out : Len(out[p]) = 4

\* C4: the flag and maxEntryLength are those SetGlobalSensorFlags computes
\* for any other order of the same devices, and a "k10temp" device gets no
\* offset when a "fam15h_power" device is listed anywhere.
C4_OrderIndependent ==
    DetectionReturned =>
        /\ \A pi \in Permutations(DOMAIN listOfDeviceDirs) :
              LET q == [k \in DOMAIN listOfDeviceDirs |-> listOfDeviceDirs[pi[k]]]
                  g == SetGlobalSensorFlagsOn(q, [flag |-> FALSE, maxLen |-> 0])
              IN /\ g.flag = digitalAmdPowerModuleInUse
                 /\ g.maxLen = maxEntryLength
        /\ \A d \in 1..reportIdx :
              LET hwmon == listOfDeviceDirs[d]
                  got == GetSensorData(k10temp, hwmon)
                  lines == ValueLinesOf(hwmon)
              IN (LabelIs(nameFile[hwmon], k10temp) /\ SomeFam15hLabel) =>
                    \A r \in 1..Len(lines) :
                        lines[r][3] = got.sensors[r].intData \div 1000

\* "k10temp" listed first, "fam15h_power" after it, no "Ryzen": 45000 is 45
C4_Witness ==
    /\ pc = "done"
    /\ Len(listOfDeviceDirs) = 2
    /\ LabelIs(nameFile[listOfDeviceDirs[1]], k10temp)
    /\ LabelIs(nameFile[listOfDeviceDirs[2]], fam15h_power)
    /\ ~CpuinfoHasRyzen
    /\ \E p \in DOMAIN out :
          /\ Len(out[p]) = 4 /\ out[p][1] = listOfDeviceDirs[1]
          /\ out[p][3] = 45

\* C5: when the root cannot be listed the run ends by panic with a non-zero
\* status, before SetGlobalSensorFlags starts; no device file is opened and
\* nothing is printed.
C5_RootFailureIsFatal ==
    ~rootOk =>
        /\ pc \in {"start", "panic"}
        /\ pc = "panic" => exitCode \notin {-1, 0}
        /\ out = <<>>
        /\ detectIdx = 0 /\ reportIdx = 0
        /\ \A p \in DOMAIN reads : reads[p].path = <<hardwareMonitorDirectory>>

C5_Witness == ~rootOk /\ pc = "panic"

\* C6: a run whose root was listed never ends with a non-zero status.
C6_OnlyRootFailureAborts ==
    rootOk => /\ exitCode \in {-1, 0}
              /\ pc \notin {"exit", "panic"}

\* some file among the leading run of usable tempN_input files holds an
\* integer above zero
HasReading(hwmon) ==
    \E i \in 1..Len(inputFile[hwmon]) :
        /\ \A k \in 1..i : ~Unusable(inputFile[hwmon][k])
        /\ LET a == Atoi(Trim(inputFile[hwmon][i].data, {" ", "\n"}))
           IN ~a.err /\ a.val >= 1

\* the device has a label and a reading to print under it
UsableData(hwmon) ==
    /\ ~Unusable(nameFile[hwmon])
    /\ LabelOf(hwmon) # <<>>
    /\ HasReading(hwmon)

MainVisited(hwmon) ==
    \E p \in DOMAIN reads : reads[p] = ReadBy("main", NamePath(hwmon))

\* C7 as stated: at the end every listed device without usable data has an
\* N/A line.
C7_EveryDeviceReported ==
    pc = "done" =>
        \A k \in DOMAIN listOfDeviceDirs :
            ~UsableData(listOfDeviceDirs[k]) =>
                Len(NALinesOf(listOfDeviceDirs[k])) >= 1

\* C7 as amended: at the end a listed device without usable data has
\* exactly one line, an N/A line under its identifier, when its name file
\* is readable and non-empty, and no line at all when it is not.
C7_LabelledDeviceReported ==
    pc = "done" =>
        \A k \in DOMAIN listOfDeviceDirs :
            LET hwmon == listOfDeviceDirs[k]
            IN ~UsableData(hwmon) =>
                 IF Unusable(nameFile[hwmon])
                 THEN LinesOf(hwmon) = <<>>
                 ELSE /\ Len(LinesOf(hwmon)) = 1
                      /\ LinesOf(hwmon)[1][1] = hwmon
                      /\ LinesOf(hwmon)[1][3] = "N/A"

\* one device printed as N/A, another left out for want of a name file
C7_Witness ==
    /\ pc = "done"
    /\ \E i, j \in DOMAIN listOfDeviceDirs :
          /\ ~Unusable(nameFile[listOfDeviceDirs[i]])
          /\ Len(NALinesOf(listOfDeviceDirs[i])) = 1
          /\ Unusable(nameFile[listOfDeviceDirs[j]])
          /\ LinesOf(listOfDeviceDirs[j]) = <<>>

\* C8: at the end, every device listed after one that failed has been
\* visited by main and reported from its own files: readings when it has
\* usable data, one N/A line when it has a label only.
C8_LaterDevicesProcessed ==
    pc = "done" =>
        \A i, j \in DOMAIN listOfDeviceDirs :
            (i < j /\ ~UsableData(listOfDeviceDirs[i])) =>
                LET hwmon == listOfDeviceDirs[j]
                IN /\ MainVisited(hwmon)
                   /\ UsableData(hwmon) =>
                        /\ Len(ValueLinesOf(hwmon)) >= 1
                        /\ NALinesOf(hwmon) = <<>>
                   /\ (~Unusable(nameFile[hwmon]) /\ ~UsableData(hwmon)) =>
                        /\ Len(NALinesOf(hwmon)) = 1
                        /\ ValueLinesOf(hwmon) = <<>>
                   /\ LinesOf(hwmon) =
                        DeviceLines(hwmon, digitalAmdPowerModuleInUse,
                                    maxEntryLength)

\* the first device has no number in temp1_input, the second is printed
C8_Witness ==
    /\ pc = "done"
    /\ Len(listOfDeviceDirs) = 2
    /\ ~Unusable(nameFile[listOfDeviceDirs[1]])
    /\ LabelOf(listOfDeviceDirs[1]) # <<>>
    /\ ~HasReading(listOfDeviceDirs[1])
    /\ Len(ValueLinesOf(listOfDeviceDirs[2])) >= 1

\* C9: for every device main calls GetSensorData for, the error is "no
\* valid sensors" exactly when nothing was read for a non-empty name, and
\* nil exactly when something was read; after an error main has printed one
\* N/A line for the device and the run has not been ended.
C9_NoValidSensors ==
    \A k \in DOMAIN listOfDeviceDirs :
        LET hwmon == listOfDeviceDirs[k]
            got == GetSensorData(LabelOf(hwmon), hwmon)
        IN ~Unusable(nameFile[hwmon]) =>
             /\ got.err = "GetSensorData(): no valid sensors"
                  <=> (Len(got.sensors) = 0 /\ LabelOf(hwmon) # <<>>)
             /\ got.err = "nil" <=> Len(got.sensors) >= 1
             /\ (k <= reportIdx /\ got.err # "nil") =>
                  /\ Len(NALinesOf(hwmon)) = 1
                  /\ ValueLinesOf(hwmon) = <<>>
                  /\ pc \in {"report", "done"}
                  /\ exitCode \in {-1, 0}

\* a labelled device without a valid sensor, printed as N/A, run finished
C9_Witness ==
    /\ pc = "done" /\ exitCode = 0
    /\ \E k \in DOMAIN listOfDeviceDirs :
          LET hwmon == listOfDeviceDirs[k]
          IN /\ ~Unusable(nameFile[hwmon])
             /\ GetSensorData(LabelOf(hwmon), hwmon).err
                  = "GetSensorData(): no valid sensors"
             /\ Len(NALinesOf(hwmon)) = 1

\* position of a device in the listing
ListedAt(hwmon) ==
    CHOOSE k \in DOMAIN listOfDeviceDirs : listOfDeviceDirs[k] = hwmon

\* C10: the lines of a device listed earlier all precede the lines of a
\* device listed later, and SetGlobalSensorFlags reads the name files in
\* the order of the listing.
C10_ListingOrder ==
    /\ \A p, q \in DOMAIN out :
          (p < q /\ Len(out[p]) > 1 /\ Len(out[q]) > 1) =>
              ListedAt(out[p][1]) <= ListedAt(out[q][1])
    /\ LET detected ==
             SelectSeq(reads, LAMBDA r : r.by = "SetGlobalSensorFlags"
                                          /\ Len(r.path) > 1)
       IN /\ Len(detected) = detectIdx
          /\ \A k \in 1..detectIdx :
                detected[k].path = NamePath(listOfDeviceDirs[k])

\* both of two devices have lines in the output
C10_Witness ==
    /\ pc = "done"
    /\ Len(listOfDeviceDirs) = 2
    /\ LinesOf(listOfDeviceDirs[1]) # <<>>
    /\ LinesOf(listOfDeviceDirs[2]) # <<>>

\* C11: the flag and maxEntryLength change only while SetGlobalSensorFlags
\* runs; no step taken before its loop or after its return changes either.
C11_GlobalsFrozen ==
    [][pc # "detect" =>
         /\ digitalAmdPowerModuleInUse' = digitalAmdPowerModuleInUse
         /\ maxEntryLength' = maxEntryLength]_vars

\* detection set both globals and main printed a reading under them
C11_Witness ==
    /\ pc = "done"
    /\ digitalAmdPowerModuleInUse
    /\ maxEntryLength > 0
    /\ \E p \in DOMAIN out : Len(out[p]) = 4

\* GetSensorData opened a file of the device
SensorsProbed(hwmon) ==
    \E p \in DOMAIN reads :
        reads[p].by = "GetSensorData" /\ reads[p].path[2] = hwmon

\* C19: the detection step over a device whose name file is unreadable or
\* empty changes neither global and does not end SetGlobalSensorFlags; the
\* run is not ended by it, and at its end main has visited the device
\* without calling GetSensorData for it and without printing a reading.
C19_UnlabelledDevice ==
    /\ [][(/\ pc = "detect"
           /\ detectIdx < Len(listOfDeviceDirs)
           /\ Unusable(nameFile[listOfDeviceDirs[detectIdx + 1]])) =>
            /\ digitalAmdPowerModuleInUse' = digitalAmdPowerModuleInUse
            /\ maxEntryLength' = maxEntryLength
            /\ pc' = "detect"
            /\ exitCode' = exitCode]_vars
    /\ []((rootOk /\ Len(rootEntries) >= 1) => pc # "exit")
    /\ [](pc = "done" =>
            \A k \in DOMAIN listOfDeviceDirs :
                LET hwmon == listOfDeviceDirs[k]
                IN Unusable(nameFile[hwmon]) =>
                     /\ MainVisited(hwmon)
                     /\ ~SensorsProbed(hwmon)
                     /\ ValueLinesOf(hwmon) = <<>>)

\* a device without a name file, though with sensor files, beside a device
\* that was printed
C19_Witness ==
    /\ pc = "done"
    /\ \E i, j \in DOMAIN listOfDeviceDirs :
          /\ nameFile[listOfDeviceDirs[i]].err
          /\ HasReading(listOfDeviceDirs[i])
          /\ MainVisited(listOfDeviceDirs[i])
          /\ Len(ValueLinesOf(listOfDeviceDirs[j])) >= 1

\* length of the longest trimmed label among the usable name files
LongestLabel ==
    LET lens == {0} \cup
                { Len(LabelOf(listOfDeviceDirs[k])) :
                    k \in { n \in DOMAIN listOfDeviceDirs :
                              ~Unusable(nameFile[listOfDeviceDirs[n]]) } }
    IN CHOOSE m \in lens : \A n \in lens : n <= m

\* C20: with the CPU info file missing, unreadable or empty and at least
\* one device listed, SetGlobalSensorFlags does not fail, and what it leaves
\* is the flag and the width the labels alone determine.
C20_CpuinfoOptional ==
    (Unusable(cpuinfoFile) /\ rootOk /\ Len(rootEntries) >= 1) =>
        /\ pc # "exit"
        /\ exitCode \in {-1, 0}
        /\ DetectionReturned =>
             /\ digitalAmdPowerModuleInUse = SomeFam15hLabel
             /\ maxEntryLength = LongestLabel

\* no CPU info file, the flag set by a "fam15h_power" label
C20_Witness ==
    /\ pc = "done"
    /\ cpuinfoFile.err
    /\ digitalAmdPowerModuleInUse
    /\ maxEntryLength = Len(fam15h_power)

(* ------------------- reading what GetSensorData returned -------------- *)

\* the call returned after its two loops
Valid(r) == r.returned /\ r.err # "GetSensorData(): invalid input"

\* the indices of the readings returned
NumberSet(r) == { r.sensors[k].number : k \in DOMAIN r.sensors }

\* the indices whose file the read loop opened
OpenedSet(r) ==
    { i \in 1..MaxSensors :
        \E k \in DOMAIN r.opens : r.opens[k] = InputPath(r.hwmon, i) }

\* the file holds a number of at least 1: digits, not all of them zero,
\* with nothing but spaces and newlines beside them
PlainNumber(f) ==
    /\ ~f.err
    /\ Len(f.data) >= 1
    /\ \A k \in DOMAIN f.data : f.data[k] \in Digits \cup TrimCutset
    /\ \E k \in DOMAIN f.data : f.data[k] \in Digits \ {"0"}

\* the decimal numeral of n >= 0
RECURSIVE Numeral(_)
Numeral(n) ==
    LET digit == <<"0", "1", "2", "3", "4", "5", "6", "7", "8", "9">>[(n % 10) + 1]
    IN IF n < 10 THEN <<digit>> ELSE Append(Numeral(n \div 10), digit)

\* the digits of a file, in order
DigitsOf(f) == SelectSeq(f.data, LAMBDA c : c \in Digits)

\* the first index whose file the count loop cannot use
FirstGap(files) ==
    CHOOSE g \in 1..(MaxSensors + 1) :
        /\ Unusable(InputOf(files, g))
        /\ \A k \in 1..(g - 1) : ~Unusable(InputOf(files, k))

\* C12: every reading returned comes from a file that was readable and not
\* empty when the read loop opened it, its raw value is the number written
\* in that file and is at least 1; an index whose file is missing, empty,
\* no number or a number below 1 has no reading.
C12_ReadingsParsed ==
    Valid(last) =>
        /\ \A k \in DOMAIN last.sensors :
              LET s == last.sensors[k]
                  f == InputOf(last.readFiles, s.number)
              IN /\ ~f.err
                 /\ Len(f.data) >= 1
                 /\ PlainNumber(f)
                 /\ s.intData >= 1
                 /\ DigitsOf(f) = Numeral(s.intData)
        /\ \A i \in 1..MaxSensors :
              ~PlainNumber(InputOf(last.readFiles, i)) => i \notin NumberSet(last)

\* a file holding 0 inside the counted range, and a reading after it
C12_Witness ==
    /\ Valid(last)
    /\ \E i, j \in 1..last.count :
          /\ i < j
          /\ last.readFiles[i] = FileOf(<<"0", "\n">>)
          /\ j \in NumberSet(last)
          /\ \E k \in DOMAIN last.sensors : last.sensors[k].intData = 45000

\* the indices and raw values of the readings returned, in order
Readings(r) ==
    [k \in DOMAIN r.sensors |-> <<r.sensors[k].number, r.sensors[k].intData>>]

\* C13: two calls in a row for the same device, no file changed from the
\* start of the first to the end of the second, return the same count and
\* the same indices with the same raw values; no step of a call changes
\* digitalAmdPowerModuleInUse or maxEntryLength.
C13_Idempotent ==
    /\ []((/\ Valid(prev) /\ Valid(last)
           /\ prev.hwmon = last.hwmon
           /\ prev.countFiles = prev.readFiles
           /\ prev.readFiles = last.countFiles
           /\ last.countFiles = last.readFiles) =>
            /\ last.count = prev.count
            /\ Readings(last) = Readings(prev)
            /\ last.err = prev.err)
    /\ [][/\ digitalAmdPowerModuleInUse' = digitalAmdPowerModuleInUse
          /\ maxEntryLength' = maxEntryLength]_vars

\* two calls over unchanged files that returned two readings each
C13_Witness ==
    /\ Valid(prev) /\ Valid(last)
    /\ ~touched
    /\ prev.countFiles = last.readFiles
    /\ Len(prev.sensors) >= 2
    /\ Len(last.sensors) >= 2
    /\ digitalAmdPowerModuleInUse

\* the count loop over files left count and opened probes
CountedRight(hwmon, files, count, probes) ==
    LET g == FirstGap(files)
    IN /\ count = g - 1
       /\ \A k \in 1..count : ~Unusable(InputOf(files, k))
       /\ probes = [k \in 1..g |-> InputPath(hwmon, k)]

\* C14: the count loop opens the files of indices 1, 2, ... in order up to
\* and including the first that is missing or empty; count is the number of
\* usable files before that one; no file after that one is opened by either
\* loop.
C14_CountPass ==
    /\ pc = "counted" =>
          CountedRight(call.hwmon, call.countFiles, call.count, call.probes)
    /\ Valid(last) =>
          /\ CountedRight(last.hwmon, last.countFiles, last.count, last.probes)
          /\ \A i \in (FirstGap(last.countFiles) + 1)..MaxSensors :
                /\ i \notin OpenedSet(last)
                /\ i \notin NumberSet(last)
                /\ \A k \in DOMAIN last.probes :
                      last.probes[k] # InputPath(last.hwmon, i)

\* a usable file behind a gap: temp1_input usable, temp2_input not,
\* temp3_input a reading
C14_Witness ==
    /\ Valid(last)
    /\ last.count = 1
    /\ Unusable(last.countFiles[2])
    /\ PlainNumber(last.countFiles[3])
    /\ PlainNumber(last.readFiles[3])
    /\ Len(last.sensors) = 1

\* C15 as stated: an index of the counted range whose file is no number,
\* or a number below 1, has no reading, and every later index of the range
\* is opened by the read loop and has a reading if its file holds one.
C15_NonParsingSkipped ==
    Valid(last) =>
        \A i \in 1..last.count :
            LET f == InputOf(last.readFiles, i)
            IN (~Unusable(f) /\ ~PlainNumber(f)) =>
                 /\ i \notin NumberSet(last)
                 /\ \A j \in (i + 1)..last.count :
                       /\ j \in OpenedSet(last)
                       /\ PlainNumber(InputOf(last.readFiles, j)) =>
                            j \in NumberSet(last)

\* C16 as stated: an index of the counted range whose file is missing or
\* empty when the read loop comes to it does not end the loop; every later
\* index of the range is opened and has a reading if its file holds one.
C16_UnusableSkipped ==
    Valid(last) =>
        \A i \in 1..last.count :
            Unusable(InputOf(last.readFiles, i)) =>
                \A j \in (i + 1)..last.count :
                    /\ j \in OpenedSet(last)
                    /\ PlainNumber(InputOf(last.readFiles, j)) =>
                         j \in NumberSet(last)

\* C17: the index of every reading returned lies in 1..count, count being
\* what the count loop established from the files it saw; every reading
\* carries that count, and no step between the count loop and the return
\* changes it.
C17_NumberWithinCount ==
    /\ [](Valid(last) =>
            /\ last.count = FirstGap(last.countFiles) - 1
            /\ \A k \in DOMAIN last.sensors :
                  /\ 1 <= last.sensors[k].number
                  /\ last.sensors[k].number <= last.count
                  /\ last.sensors[k].count = last.count)
    /\ [][pc = "counted" =>
             \/ pc' = "counted" /\ call'.count = call.count
             \/ pc' = "idle" /\ last'.count = call.count]_vars

\* a file changed under the call, and a reading below the count returned
C17_Witness ==
    /\ Valid(last)
    /\ touched
    /\ last.countFiles # last.readFiles
    /\ \E k \in DOMAIN last.sensors :
          last.sensors[k].number < last.sensors[k].count

\* C18: the readings returned are in strictly increasing order of index,
\* and their indices are exactly those of the counted range whose file the
\* read loop opened and found to hold a number of at least 1.
C18_OnePerValidIndex ==
    Valid(last) =>
        /\ \A k, l \in DOMAIN last.sensors :
              k < l => last.sensors[k].number < last.sensors[l].number
        /\ NumberSet(last) =
              { i \in 1..last.count :
                  /\ i \in OpenedSet(last)
                  /\ PlainNumber(InputOf(last.readFiles, i)) }
        /\ Len(last.sensors) = Cardinality(NumberSet(last))

\* readings 1 and 3 returned, index 2 left out
C18_Witness ==
    /\ Valid(last)
    /\ last.count = 3
    /\ Readings(last) = <<<<1, 45000>>, <<3, 50999>>>>

\* C21: once SetGlobalSensorFlags has returned, maxEntryLength is the
\* length of the longest trimmed label among the listed devices whose name
\* file is readable and not empty, 0 without such a device; no step of the
\* run makes it smaller.
C21_LongestLabel ==
    /\ [](DetectionReturned => maxEntryLength = LongestLabel)
    /\ [][maxEntryLength' >= maxEntryLength]_vars

\* the longer label on the first device, a shorter one on the second
C21_Witness ==
    /\ pc = "done"
    /\ Len(listOfDeviceDirs) >= 2
    /\ LabelOf(listOfDeviceDirs[1]) = fam15h_power
    /\ LabelIs(nameFile[listOfDeviceDirs[2]], <<"i", "w", "l">>)
    /\ maxEntryLength = Len(fam15h_power)

\* C22: after the iteration of main's loop over a device, every element of
\* the slice GetSensorData returned still holds the number written in its
\* input file, and the value printed for it is that number divided by 1000,
\* plus 30 for "k10temp" with the flag off.
C22_RawValueKept ==
    (pc \in {"report", "done"} /\ reportIdx >= 1) =>
        LET hwmon == listOfDeviceDirs[reportIdx]
            lines == ValueLinesOf(hwmon)
        IN /\ Len(lines) = Len(sensors)
           /\ \A k \in DOMAIN sensors :
                 LET f == InputOf(inputFile[hwmon], sensors[k].number)
                     raw == sensors[k].intData
                 IN /\ PlainNumber(f)
                    /\ DigitsOf(f) = Numeral(raw)
                    /\ lines[k][3] =
                         IF sensors[k].name = k10temp /\ ~digitalAmdPowerModuleInUse
                         THEN (raw \div milliUnits) + k10tempOffset
                         ELSE raw \div milliUnits

\* the slice still holds 45000 and 50999 after 75 and 80 were printed
C22_Witness ==
    /\ pc = "done"
    /\ Len(sensors) = 2
    /\ sensors[1].intData = 45000
    /\ sensors[2].intData = 50999
    /\ \E p, q \in DOMAIN out :
          /\ Len(out[p]) = 4 /\ out[p][3] = 75
          /\ Len(out[q]) = 4 /\ out[q][3] = 80

\* the file holds decimal digits, not all zero, with nothing but space,
\* newline, tab and carriage return before and after them
SurroundedNumber(f) ==
    /\ ~f.err
    /\ \E a, b \in 1..Len(f.data) :
          /\ a <= b
          /\ \A k \in 1..(a - 1) : f.data[k] \in {" ", "\n", "\t", "\r"}
          /\ \A k \in a..b : f.data[k] \in Digits
          /\ \A k \in (b + 1)..Len(f.data) : f.data[k] \in {" ", "\n", "\t", "\r"}
    /\ \E k \in DOMAIN f.data : f.data[k] \in Digits \ {"0"}

\* C23 as stated: an input file holding a positive decimal integer with
\* spaces, newlines, tabs or carriage returns around it has a reading, and
\* the raw value of the reading is that integer.
C23_WhitespaceTrimmed ==
    Valid(last) =>
        \A i \in 1..last.count :
            LET f == InputOf(last.readFiles, i)
            IN SurroundedNumber(f) =>
                 \E k \in DOMAIN last.sensors :
                     /\ last.sensors[k].number = i
                     /\ DigitsOf(f) = Numeral(last.sensors[k].intData)

\* the name file is not empty and holds spaces and newlines only
BlankLabel(f) ==
    /\ ~f.err
    /\ Len(f.data) >= 1
    /\ \A k \in DOMAIN f.data : f.data[k] \in {" ", "\n"}

\* C24: the detection step over a device whose name file holds only spaces
\* and newlines runs to its end and leaves maxEntryLength and the flag as
\* they were; main visits the device, GetSensorData opens none of its files,
\* and the device gets one N/A line with an empty name and no value line,
\* whatever its input files hold.
C24_BlankLabel ==
    /\ [][(/\ pc = "detect"
           /\ detectIdx < Len(listOfDeviceDirs)
           /\ BlankLabel(nameFile[listOfDeviceDirs[detectIdx + 1]])) =>
            /\ maxEntryLength' = maxEntryLength
            /\ digitalAmdPowerModuleInUse' = digitalAmdPowerModuleInUse
            /\ detectIdx' = detectIdx + 1
            /\ pc' = "detect"]_vars
    /\ [](pc = "done" =>
            \A k \in DOMAIN listOfDeviceDirs :
                LET hwmon == listOfDeviceDirs[k]
                IN BlankLabel(nameFile[hwmon]) =>
                     /\ LabelOf(hwmon) = <<>>
                     /\ MainVisited(hwmon)
                     /\ ~SensorsProbed(hwmon)
                     /\ ValueLinesOf(hwmon) = <<>>
                     /\ NALinesOf(hwmon) =
                          <<<<hwmon,
                              [n \in 1..(maxEntryLength + spacerSize) |-> " "],
                              "N/A">>>>)

\* a device with a blank label and input files that hold readings
C24_Witness ==
    /\ pc = "done"
    /\ \E k \in DOMAIN listOfDeviceDirs :
          /\ BlankLabel(nameFile[listOfDeviceDirs[k]])
          /\ HasReading(listOfDeviceDirs[k])
          /\ Len(NALinesOf(listOfDeviceDirs[k])) = 1
          /\ maxEntryLength > 0

\* C25: a visited device whose name file is readable and not empty has
\* either one N/A line and no value line, or no N/A line and one value line
\* for each reading GetSensorData returns, at least one and at most count.
C25_NAOrValues ==
    \A d \in 1..reportIdx :
        LET hwmon == listOfDeviceDirs[d]
            got == GetSensorData(LabelOf(hwmon), hwmon)
            na == Len(NALinesOf(hwmon))
            values == Len(ValueLinesOf(hwmon))
        IN ~Unusable(nameFile[hwmon]) =>
             \/ na = 1 /\ values = 0
             \/ /\ na = 0
                /\ values = Len(got.sensors)
                /\ 1 <= values
                /\ values <= got.count

\* one device with an N/A line only, one with two value lines of a count
\* of three
C25_Witness ==
    /\ pc = "done"
    /\ \E i, j \in DOMAIN listOfDeviceDirs :
          /\ Len(NALinesOf(listOfDeviceDirs[i])) = 1
          /\ ~Unusable(nameFile[listOfDeviceDirs[j]])
          /\ Len(ValueLinesOf(listOfDeviceDirs[j])) = 2
          /\ CountSensors(inputFile[listOfDeviceDirs[j]]) = 3

\* how often who opened path
TimesRead(who, path) ==
    Cardinality({ p \in DOMAIN reads : reads[p] = ReadBy(who, path) })

\* the files of the device GetSensorData opened, one entry per open
SensorOpens(hwmon) ==
    Cardinality({ p \in DOMAIN reads :
                    reads[p].by = "GetSensorData" /\ reads[p].path[2] = hwmon })

\* the steps main has left at most: the rest of the detection loop, the
\* CPU info read, the rest of the report loop, the return
Rank ==
    CASE pc = "start" -> 2 * Len(rootEntries) + 4
      [] pc = "SetGlobalSensorFlags" -> 2 * Len(listOfDeviceDirs) + 3
      [] pc = "detect" ->
            (Len(listOfDeviceDirs) - detectIdx) + Len(listOfDeviceDirs) + 2
      [] pc = "report" -> (Len(listOfDeviceDirs) - reportIdx) + 1
      [] OTHER -> 0

\* C26: every run ends: until the process panics, exits or main returns a
\* step can be taken (inside the report loop the next iteration, elsewhere
\* one of the other steps), and every step brings the end nearer, so a run over
\* n devices has at most 2n + 4 steps.  When main returns it has visited
\* every listed device exactly once, and for every device it called
\* GetSensorData for, the count loop opened count files and the one that
\* ended it, and the read loop at most count more.
C26_Terminates ==
    /\ [](\/ pc \in {"done", "exit", "panic"}
          \/ pc = "report" /\ reportIdx < Len(listOfDeviceDirs)
          \/ ENABLED (\/ ListDevices
                      \/ EnterSetGlobalSensorFlags
                      \/ DetectDevice
                      \/ DetectCpuinfo
                      \/ Finish))
    /\ [](Rank >= 0)
    /\ [][Rank' < Rank]_vars
    /\ [](pc = "done" =>
            /\ reportIdx = Len(listOfDeviceDirs)
            /\ \A k \in DOMAIN listOfDeviceDirs :
                  LET hwmon == listOfDeviceDirs[k]
                      count == Len(inputFile[hwmon]) -
                               Cardinality({ i \in DOMAIN inputFile[hwmon] :
                                   \E j \in 1..i : Unusable(inputFile[hwmon][j]) })
                  IN /\ TimesRead("main", NamePath(hwmon)) = 1
                     /\ SensorsProbed(hwmon) =>
                          /\ SensorOpens(hwmon) >= count + 1
                          /\ SensorOpens(hwmon) <= 2 * count + 1)

\* main returned after two devices, one of them with three input files
C26_Witness ==
    /\ pc = "done"
    /\ exitCode = 0
    /\ Len(listOfDeviceDirs) = MaxDevices
    /\ \E k \in DOMAIN listOfDeviceDirs :
          SensorOpens(listOfDeviceDirs[k]) = 7

\* the lines the devices of dirs get, in the order of dirs, for a flag and
\* a width
RECURSIVE ReportOf(_, _, _)
ReportOf(dirs, flag, width) ==
    IF dirs = <<>> THEN <<>>
    ELSE DeviceLines(Head(dirs), flag, width) \o ReportOf(Tail(dirs), flag, width)

\* C27: the flag, maxEntryLength and the lines printed are determined by
\* the files alone: when main returns, the flag is whether a label is
\* "fam15h_power" or the CPU info file holds "Ryzen", maxEntryLength is the
\* longest label, and the output is the report of the listed devices for
\* these two values, whatever the run did on its way.
C27_FunctionOfFiles ==
    pc = "done" =>
        /\ digitalAmdPowerModuleInUse = (SomeFam15hLabel \/ CpuinfoHasRyzen)
        /\ maxEntryLength = LongestLabel
        /\ out = ReportOf(rootEntries, SomeFam15hLabel \/ CpuinfoHasRyzen,
                          LongestLabel)

\* a run that printed an N/A line and then value lines
C27_Witness ==
    /\ pc = "done"
    /\ Len(out) >= 3
    /\ Len(out[1]) = 3
    /\ Len(out[Len(out)]) = 4
    /\ CpuinfoHasRyzen

\* what GetSensorData returns for input it rejects
RejectedCall(r) ==
    /\ r.err = "GetSensorData(): invalid input"
    /\ r.sensors = <<>>
    /\ r.reads = <<>>

\* C28: SetGlobalSensorFlags called with an empty list returns its error
\* (main prints it and exits) without opening a file and without changing
\* the flag or maxEntryLength; GetSensorData called with an empty name or an
\* empty device identifier returns its error, no reading, and opens no file.
C28_InvalidInput ==
    /\ [][(pc = "SetGlobalSensorFlags" /\ Len(listOfDeviceDirs) < 1) =>
            /\ pc' = "exit"
            /\ out' = Append(out, <<"SetGlobalSensorFlags(): invalid input">>)
            /\ reads' = reads
            /\ digitalAmdPowerModuleInUse' = digitalAmdPowerModuleInUse
            /\ maxEntryLength' = maxEntryLength]_vars
    /\ [](pc = "exit" =>
            /\ \A p \in DOMAIN reads : reads[p].by = "main"
            /\ ~digitalAmdPowerModuleInUse
            /\ maxEntryLength = 0)
    /\ [](\A k \in DOMAIN rootEntries :
            LET hwmon == rootEntries[k]
                files == inputFile[hwmon]
            IN /\ RejectedCall(GetSensorDataOn(<<>>, hwmon, files, files))
               /\ RejectedCall(GetSensorDataOn(k10temp, "", files, files))
               /\ RejectedCall(GetSensorDataOn(<<>>, "", files, files)))

\* the run over an empty listing, with a CPU info file that holds "Ryzen"
C28_Witness ==
    /\ pc = "exit"
    /\ exitCode = 1
    /\ rootOk
    /\ listOfDeviceDirs = <<>>
    /\ CpuinfoHasRyzen
    /\ out = <<<<"SetGlobalSensorFlags(): invalid input">>>>

\* C29: once detection has returned, the trimmed label of every device
\* with a readable, non-empty name file is at most maxEntryLength long, and
\* the name column of every N/A line and value line printed is exactly
\* maxEntryLength + spacerSize characters wide and starts with the label.
C29_NameColumnWidth ==
    DetectionReturned =>
        /\ \A k \in DOMAIN listOfDeviceDirs :
              ~Unusable(nameFile[listOfDeviceDirs[k]]) =>
                  Len(LabelOf(listOfDeviceDirs[k])) <= maxEntryLength
        /\ \A p \in DOMAIN out :
              Len(out[p]) > 1 =>
                  LET label == LabelOf(out[p][1])
                  IN /\ Len(out[p][2]) = maxEntryLength + spacerSize
                     /\ SubSeq(out[p][2], 1, Len(label)) = label
                     /\ \A n \in (Len(label) + 1)..Len(out[p][2]) :
                           out[p][2][n] = " "

\* a short label padded to the width of a long one, on an N/A line and on
\* a value line
C29_Witness ==
    /\ pc = "done"
    /\ maxEntryLength = Len(fam15h_power)
    /\ \E p, q \in DOMAIN out :
          /\ Len(out[p]) = 3
          /\ Len(out[q]) = 4
          /\ \E d \in {out[p][1], out[q][1]} : Len(LabelOf(d)) < maxEntryLength

\* C30: the readings one call of GetSensorData returns all carry one and
\* the same count, the name the call was given and the category "temp",
\* and there are no more of them than that count.
C30_UniformReadings ==
    Valid(last) =>
        /\ \A k, l \in DOMAIN last.sensors :
              last.sensors[k].count = last.sensors[l].count
        /\ \A k \in DOMAIN last.sensors :
              /\ last.sensors[k].name = last.name
              /\ last.sensors[k].category = "temp"
              /\ Len(last.sensors) <= last.sensors[k].count

\* two readings returned by a call that counted three files
C30_Witness ==
    /\ Valid(last)
    /\ last.name = k10temp
    /\ Len(last.sensors) = 2
    /\ last.sensors[1].count = 3
    /\ last.sensors[2].count = 3

====
